---- MODULE Spec2Model ----
(***************************************************************************)
(* Simulation clock and trip playback of the Porto taxi replay API         *)
(* (src/src/app.py).  The server holds one global, trips_df, set once by   *)
(* the lifespan startup hook.  Every live handler is an `async def` with   *)
(* no suspension point, so each one runs atomically on the event loop and  *)
(* is one action here.  The real-time clock is the environment.            *)
(***************************************************************************)
EXTENDS Integers, Sequences, FiniteSets, TLC

VARIABLES trips_df, clock, resp, ticks

vars == <<trips_df, clock, resp, ticks>>

(***************************************************************************)
(* Bounds of the model.                                                    *)
(***************************************************************************)
MaxTicks == 1
MaxTrips == 2

(***************************************************************************)
(* Program constants.                                                      *)
(***************************************************************************)
\* int(SIMULATION_START.timestamp()) for 2013-11-26 08:00:00 UTC
SIMULATION_START == 1385452800
\* one GPS sample every 15 seconds (the literal in int(elapsed / 15))
SAMPLE_CADENCE == 15

(***************************************************************************)
(* datetime arithmetic, as Python's datetime module computes it.           *)
(***************************************************************************)
IsLeap(y) == (y % 4 = 0 /\ y % 100 # 0) \/ y % 400 = 0

DaysInMonth(y, m) ==
    IF m \in {1, 3, 5, 7, 8, 10, 12} THEN 31
    ELSE IF m \in {4, 6, 9, 11} THEN 30
    ELSE IF IsLeap(y) THEN 29 ELSE 28

RECURSIVE DaysBeforeMonth(_, _)
DaysBeforeMonth(y, m) ==
    IF m <= 1 THEN 0 ELSE DaysBeforeMonth(y, m - 1) + DaysInMonth(y, m - 1)

DaysBeforeYear(y) ==
    (y - 1) * 365 + ((y - 1) \div 4) - ((y - 1) \div 100) + ((y - 1) \div 400)

\* date.toordinal()
ToOrdinal(dt) == DaysBeforeYear(dt.year) + DaysBeforeMonth(dt.year, dt.month) + dt.day

SecondOfDay(dt) == dt.hour * 3600 + dt.minute * 60 + dt.second

\* a > b on two aware UTC datetimes
DtGreater(a, b) ==
    \/ ToOrdinal(a) > ToOrdinal(b)
    \/ /\ ToOrdinal(a) = ToOrdinal(b)
       /\ \/ SecondOfDay(a) > SecondOfDay(b)
          \/ SecondOfDay(a) = SecondOfDay(b) /\ a.microsecond > b.microsecond

\* int((a - b).total_seconds()): the timedelta is normalised to whole
\* seconds plus 0..999999 microseconds, and int() truncates toward zero.
TotalSecondsInt(a, b) ==
    LET rawSecs  == (ToOrdinal(a) - ToOrdinal(b)) * 86400 + SecondOfDay(a) - SecondOfDay(b)
        rawMicro == a.microsecond - b.microsecond
        secs     == IF rawMicro < 0 THEN rawSecs - 1 ELSE rawSecs
        micro    == IF rawMicro < 0 THEN rawMicro + 1000000 ELSE rawMicro
    IN  IF secs < 0 /\ micro > 0 THEN secs + 1 ELSE secs

\* datetime.replace(day=d) raises ValueError when d is not a day of the month
DayInRange(dt, d) == d >= 1 /\ d <= DaysInMonth(dt.year, dt.month)

(***************************************************************************)
(* get_simulation_time, with `now` (the datetime.now(timezone.utc) it      *)
(* reads) as its input.  raised = TRUE is the ValueError that escapes from *)
(* cycle_start.replace(day=cycle_start.day - 1).                           *)
(***************************************************************************)
ClockResult(raised, sim, secs, cs) ==
    [raised |-> raised, simulation_timestamp |-> sim,
     seconds_into_cycle |-> secs, cycle_start |-> cs]

\* faulty variant: the odd/even test inverted
get_simulation_time_parity(now) ==
    LET current_hour     == now.hour
        cycle_start_hour == IF current_hour % 2 = 1
                            THEN (current_hour - 1) % 24
                            ELSE current_hour
        replaced         == [now EXCEPT !.hour = cycle_start_hour, !.minute = 0,
                                        !.second = 0, !.microsecond = 0]
        seconds_into_cycle == TotalSecondsInt(now, replaced)
    IN  ClockResult(FALSE, SIMULATION_START + seconds_into_cycle,
                    seconds_into_cycle, replaced)

\* faulty variant: round() in place of int() on the elapsed seconds
get_simulation_time_rounded(now) ==
    LET current_hour     == now.hour
        cycle_start_hour == IF current_hour % 2 = 0
                            THEN (current_hour - 1) % 24
                            ELSE current_hour
        replaced         == [now EXCEPT !.hour = cycle_start_hour, !.minute = 0,
                                        !.second = 0, !.microsecond = 0]
        went_back        == DtGreater(replaced, now)
    IN  IF went_back /\ ~DayInRange(replaced, replaced.day - 1)
        THEN ClockResult(TRUE, 0, 0, replaced)
        ELSE LET cycle_start == IF went_back
                                THEN [replaced EXCEPT !.day = replaced.day - 1]
                                ELSE replaced
                 seconds_into_cycle ==
                     TotalSecondsInt(now, cycle_start)
                       + (IF now.microsecond >= 500000 THEN 1 ELSE 0)
             IN  ClockResult(FALSE, SIMULATION_START + seconds_into_cycle,
                             seconds_into_cycle, cycle_start)

get_simulation_time(now) ==
    LET current_hour     == now.hour
        cycle_start_hour == IF current_hour % 2 = 0
                            THEN (current_hour - 1) % 24
                            ELSE current_hour
        replaced         == [now EXCEPT !.hour = cycle_start_hour, !.minute = 0,
                                        !.second = 0, !.microsecond = 0]
        went_back        == DtGreater(replaced, now)
    IN  IF went_back /\ ~DayInRange(replaced, replaced.day - 1)
        THEN ClockResult(TRUE, 0, 0, replaced)
        ELSE LET cycle_start == IF went_back
                                THEN [replaced EXCEPT !.day = replaced.day - 1]
                                ELSE replaced
                 seconds_into_cycle == TotalSecondsInt(now, cycle_start)
             IN  ClockResult(FALSE, SIMULATION_START + seconds_into_cycle,
                             seconds_into_cycle, cycle_start)

(***************************************************************************)
(* The real-time clock: an aware UTC datetime.  It only moves forward.     *)
(***************************************************************************)
DateTime(y, mo, d, h, mi, s, us) ==
    [year |-> y, month |-> mo, day |-> d, hour |-> h, minute |-> mi,
     second |-> s, microsecond |-> us]

\* the first instant of the next calendar second
NextSecond(dt) ==
    LET z == [dt EXCEPT !.microsecond = 0] IN
    IF dt.second < 59 THEN [z EXCEPT !.second = dt.second + 1]
    ELSE IF dt.minute < 59 THEN [z EXCEPT !.second = 0, !.minute = dt.minute + 1]
    ELSE IF dt.hour < 23 THEN [z EXCEPT !.second = 0, !.minute = 0, !.hour = dt.hour + 1]
    ELSE IF dt.day < DaysInMonth(dt.year, dt.month)
         THEN [z EXCEPT !.second = 0, !.minute = 0, !.hour = 0, !.day = dt.day + 1]
    ELSE IF dt.month < 12
         THEN [z EXCEPT !.second = 0, !.minute = 0, !.hour = 0, !.day = 1,
                        !.month = dt.month + 1]
    ELSE [z EXCEPT !.second = 0, !.minute = 0, !.hour = 0, !.day = 1, !.month = 1,
                   !.year = dt.year + 1]

LastMicrosecond == 1000000 - 1

\* the instants get_simulation_time is applied to in SpecClock
ClockYears == {2023, 2024}
ClockMinutes == {0, 1, 30, 59}
ClockSeconds == {0, 1, 30, 59}
ClockInputs ==
    { DateTime(y, mo, d, h, mi, s, us) :
        y \in ClockYears, mo \in 1..12, d \in {1, 2, 28}, h \in 0..23,
        mi \in ClockMinutes, s \in ClockSeconds, us \in {0, LastMicrosecond} }
    \cup
    { DateTime(y, mo, DaysInMonth(y, mo), h, mi, s, us) :
        y \in ClockYears, mo \in 1..12, h \in {0, 1, 23},
        mi \in {0, 59}, s \in {0, 59}, us \in {0, LastMicrosecond} }

(***************************************************************************)
(* SpecClock: get_simulation_time as a pure function of `now`.             *)
(***************************************************************************)
NoneDF == [is_none |-> TRUE, rows |-> <<>>]

ClockResp(op, now, r) == [op |-> op, now |-> now, result |-> r]

InitClock ==
    /\ trips_df = NoneDF
    /\ clock \in ClockInputs
    /\ resp = ClockResp("none", clock, ClockResult(FALSE, 0, 0, clock))
    /\ ticks = 0

CallGetSimulationTime ==
    /\ resp' = ClockResp("get_simulation_time", clock, get_simulation_time(clock))
    /\ UNCHANGED <<trips_df, clock, ticks>>

NextClock == CallGetSimulationTime

SpecClock == InitClock /\ [][NextClock]_vars

(***************************************************************************)
(* Claims about the simulation clock, checked under SpecClock.             *)
(***************************************************************************)
ClockCalled == resp.op = "get_simulation_time"

\* the calendar day before dt's, by UTC date arithmetic
PreviousDay(dt) ==
    IF dt.day > 1 THEN [dt EXCEPT !.day = dt.day - 1]
    ELSE IF dt.month > 1
         THEN [dt EXCEPT !.month = dt.month - 1,
                         !.day = DaysInMonth(dt.year, dt.month - 1)]
    ELSE [dt EXCEPT !.year = dt.year - 1, !.month = 12, !.day = 31]

\* C1: for every valid UTC instant now, get_simulation_time returns without
\* raising, seconds_into_cycle is in [0, 7200) and simulation_timestamp is
\* R + seconds_into_cycle.
C1_TotalAndInRange ==
    ClockCalled =>
        /\ ~resp.result.raised
        /\ resp.result.seconds_into_cycle \in 0..7199
        /\ resp.result.simulation_timestamp
             = SIMULATION_START + resp.result.seconds_into_cycle

\* C2: when now is in UTC hour 00 the cycle start is 23:00:00 of the previous
\* calendar day, on every date, so seconds_into_cycle = 3600 + 60*minute + second.
C2_MidnightStartsPreviousDay ==
    (ClockCalled /\ resp.now.hour = 0) =>
        /\ ~resp.result.raised
        /\ resp.result.cycle_start
             = [PreviousDay(resp.now) EXCEPT !.hour = 23, !.minute = 0,
                                             !.second = 0, !.microsecond = 0]
        /\ resp.result.seconds_into_cycle
             = 3600 + 60 * resp.now.minute + resp.now.second

\* C3: when now is exactly an odd UTC hour boundary (hh:00:00, hh odd),
\* get_simulation_time takes that hour as the cycle start:
\* seconds_into_cycle = 0 and simulation_timestamp = R.
OddHourBoundary(dt) == dt.hour % 2 = 1 /\ dt.minute = 0 /\ dt.second = 0

C3_OddBoundaryStartsCycle ==
    (ClockCalled /\ OddHourBoundary(resp.now)) =>
        /\ ~resp.result.raised
        /\ resp.result.cycle_start = [resp.now EXCEPT !.microsecond = 0]
        /\ resp.result.seconds_into_cycle = 0
        /\ resp.result.simulation_timestamp = SIMULATION_START

C3_Witness ==
    /\ ClockCalled
    /\ OddHourBoundary(resp.now)
    /\ resp.now.hour = 23
    /\ resp.now.microsecond = LastMicrosecond
    /\ resp.result.seconds_into_cycle = 0

(***************************************************************************)
(* The Trip Store.  A row of trips_df keeps the columns the live handlers  *)
(* read: TAXI_ID, TRIP_ID, TIMESTAMP, duration_sec and POLYLINE.  The      *)
(* descriptive columns (CALL_TYPE, passengers, fare, ...) are copied       *)
(* through unread and are left out.  POLYLINE is the raw cell:             *)
(*   unparsable  None, NaN or text that is not JSON (json.loads raises)    *)
(*   array       a JSON list                                               *)
(*   string      a JSON string                                             *)
(*   object      a JSON object                                             *)
(*   scalar      a JSON number, true, false or null                        *)
(* with `items` the elements of the list, the characters of the string or  *)
(* the keys of the object.                                                 *)
(***************************************************************************)
Trip(driver, id, start, duration, kind, items) ==
    [TAXI_ID |-> driver, TRIP_ID |-> id, TIMESTAMP |-> start,
     duration_sec |-> duration, POLYLINE |-> [kind |-> kind, items |-> items]]

P1 == <<-8618, 41141>>
P2 == <<-8620, 41142>>
P3 == <<-8622, 41145>>

\* the rows a store is drawn from; TIMESTAMP is relative to the replay window
TripPool ==
    { Trip(1, 1, SIMULATION_START + 3600, 1,    "unparsable", <<>>),
      Trip(1, 2, SIMULATION_START + 3570, 31,   "array",      <<P1, P2>>),
      Trip(2, 3, SIMULATION_START + 3585, 120,  "array",      <<P1, P2, P3>>),
      Trip(2, 4, SIMULATION_START + 3600, 0,    "array",      <<P1>>),
      Trip(1, 5, SIMULATION_START,        7200, "scalar",     <<>>),
      Trip(2, 6, SIMULATION_START + 3599, 1,    "array",      <<>>),
      Trip(2, 7, SIMULATION_START + 3600, 30,   "string",     <<(<<"a">>), (<<"b">>)>>),
      Trip(2, 8, SIMULATION_START,        2,    "object",     <<(<<"k">>)>>) }

\* stores of at most MaxTrips rows; TRIP_ID is unique within a store
Stores ==
    { s \in UNION { [1..n -> TripPool] : n \in 0..MaxTrips } :
        \A i, j \in DOMAIN s : s[i].TRIP_ID = s[j].TRIP_ID => i = j }

DataFrame(rows) == [is_none |-> FALSE, rows |-> rows]

\* the request parameters
None == 0
Drivers == {1, 2}
TripIds == {2, 5}

(***************************************************************************)
(* parse_polyline: json.loads, with every exception turned into [].        *)
(* The value is tagged with its Python type.                               *)
(***************************************************************************)
PyValue(type, items) == [type |-> type, items |-> items]

parse_polyline(polyline_str) ==
    IF polyline_str.kind = "array" THEN PyValue("list", polyline_str.items)
    ELSE IF polyline_str.kind = "string" THEN PyValue("str", polyline_str.items)
    ELSE IF polyline_str.kind = "object" THEN PyValue("dict", polyline_str.items)
    ELSE IF polyline_str.kind = "scalar" THEN PyValue("scalar", <<>>)
    ELSE PyValue("list", <<>>)

Min(a, b) == IF a <= b THEN a ELSE b

\* len(v) raises TypeError on an int, a float, a bool and on None
HasLen(v) == v.type \in {"list", "str", "dict"}
PyLen(v) == Len(v.items)

\* v[:n] raises on a dict (a slice is no key)
Sliceable(v) == v.type \in {"list", "str"}

\* faulty variant: the last n samples in place of the first n
Slice_suffix(v, n) ==
    LET k == IF n < 0 THEN 0 ELSE Min(n, PyLen(v))
    IN  PyValue(v.type, SubSeq(v.items, PyLen(v) - k + 1, PyLen(v)))

Slice(v, n) ==
    LET stop == IF n >= 0 THEN n ELSE PyLen(v) + n
    IN  PyValue(v.type, SubSeq(v.items, 1, IF stop < 0 THEN 0 ELSE Min(stop, PyLen(v))))

\* v[i] for i >= 0 raises KeyError on a dict (its keys are strings) and
\* IndexError past the end of a list or a string
Indexable(v, i) == v.type \in {"list", "str"} /\ i < PyLen(v)

\* int(x / d) for an integer x: true division, then truncation toward zero
IntDiv(x, d) == IF x >= 0 THEN x \div d ELSE -((-x) \div d)

\* faulty variant: the "+ 1" forgotten
points_to_show_floor(elapsed, polyline) ==
    Min(IntDiv(elapsed, SAMPLE_CADENCE), PyLen(polyline))

points_to_show(elapsed, polyline) ==
    Min(IntDiv(elapsed, SAMPLE_CADENCE) + 1, PyLen(polyline))

\* round((elapsed / duration) * 100, 2) in hundredths of a percent, ties to
\* even; -1 stands for the inf / nan that numpy yields on a zero divisor
progress_pct(elapsed, duration) ==
    IF duration = 0 THEN -1
    ELSE LET n == elapsed * 10000
             q == n \div duration
             r == n % duration
         IN  IF 2 * r > duration \/ (2 * r = duration /\ q % 2 = 1)
             THEN q + 1 ELSE q

\* faulty variant: the end of the interval taken as inclusive
is_active_closed(trip, sim_timestamp) ==
    /\ trip.TIMESTAMP <= sim_timestamp
    /\ trip.TIMESTAMP + trip.duration_sec >= sim_timestamp

is_active(trip, sim_timestamp) ==
    /\ trip.TIMESTAMP <= sim_timestamp
    /\ trip.TIMESTAMP + trip.duration_sec > sim_timestamp

(***************************************************************************)
(* Playback of one trip: the entry a handler builds for it.  An exception  *)
(* raised while building it (TypeError from len() or from slicing, a       *)
(* LookupError -- KeyError or IndexError -- from subscripting) is not      *)
(* caught by the handler.                                                  *)
(***************************************************************************)
NoPosition == [present |-> FALSE, value |-> <<>>]
Position(v) == [present |-> TRUE, value |-> v]
NoHistory == PyValue("absent", <<>>)

TripData(trip, elapsed, progress, history, position) ==
    [driver_id |-> trip.TAXI_ID, trip_id |-> trip.TRIP_ID,
     elapsed_seconds |-> elapsed, total_duration |-> trip.duration_sec,
     progress_pct |-> progress, gps_history |-> history,
     current_position |-> position]

Built(row) == [raised |-> FALSE, exc |-> "", row |-> <<row>>]
Raised(exc) == [raised |-> TRUE, exc |-> exc, row |-> <<>>]

\* polyline[points - 1] if points > 0 else None
current_position(polyline, points) ==
    IF points > 0 THEN Position(polyline.items[points]) ELSE NoPosition

\* the body of the loop of live_all, and the tail of live_driver_trip
trip_with_history(trip, sim_timestamp) ==
    LET elapsed  == sim_timestamp - trip.TIMESTAMP
        polyline == parse_polyline(trip.POLYLINE)
    IN  IF ~HasLen(polyline) THEN Raised("TypeError")
        ELSE LET points == points_to_show(elapsed, polyline)
             IN  IF ~Sliceable(polyline) THEN Raised("TypeError")
                 ELSE IF points > 0 /\ ~Indexable(polyline, points - 1) THEN Raised("LookupError")
                 ELSE Built(TripData(trip, elapsed,
                                     progress_pct(elapsed, trip.duration_sec),
                                     Slice(polyline, points),
                                     current_position(polyline, points)))

\* the tail of live_driver_latest: the position only, no slice is taken
trip_latest(trip, sim_timestamp) ==
    LET elapsed  == sim_timestamp - trip.TIMESTAMP
        polyline == parse_polyline(trip.POLYLINE)
    IN  IF ~HasLen(polyline) THEN Raised("TypeError")
        ELSE LET points == points_to_show(elapsed, polyline)
             IN  IF points > 0 /\ ~Indexable(polyline, points - 1) THEN Raised("LookupError")
                 ELSE Built(TripData(trip, elapsed,
                                     progress_pct(elapsed, trip.duration_sec),
                                     NoHistory,
                                     current_position(polyline, points)))

\* for _, trip in active_trips.iterrows(): result.append(trip_data); the
\* loop stops at the first entry that raises, with `result` as built so far
RECURSIVE build_result(_, _, _)
build_result(active_trips, sim_timestamp, result) ==
    IF active_trips = <<>> THEN [raised |-> FALSE, exc |-> "", result |-> result]
    ELSE LET b == trip_with_history(Head(active_trips), sim_timestamp)
         IN  IF b.raised THEN [raised |-> TRUE, exc |-> b.exc, result |-> result]
             ELSE build_result(Tail(active_trips), sim_timestamp, result \o b.row)

(***************************************************************************)
(* The handlers.  A response keeps the request (op, driver_id, trip_id),   *)
(* the clock reading `at` the handler worked from, the HTTP status, the    *)
(* error of a non-200 answer, and the body's simulation_time,              *)
(* seconds_into_cycle and trips.  An exception that escapes the handler is *)
(* status 500 with the exception's type as error.  real_time, a second     *)
(* clock reading that is only echoed, is left out.                         *)
(***************************************************************************)
Response(op, driver_id, trip_id, at, status, error, t, trips) ==
    [op |-> op, driver_id |-> driver_id, trip_id |-> trip_id, at |-> at,
     status |-> status, error |-> error,
     simulation_time |-> t.simulation_timestamp,
     seconds_into_cycle |-> t.seconds_into_cycle,
     trips |-> trips]

NoTime == [simulation_timestamp |-> 0, seconds_into_cycle |-> 0]

\* live_all past its `if trips_df is None` test
live_all_loaded(df, now, driver_id) ==
    LET t == get_simulation_time(now) IN
    IF t.raised
    THEN Response("live_all", driver_id, None, now, 500, "ValueError", NoTime, <<>>)
    ELSE
    \* trips_df[mask] keeps the rows that pass, in the frame's order
    LET Active(trip) == is_active(trip, t.simulation_timestamp)
        OfDriver(trip) == trip.TAXI_ID = driver_id
        in_window    == SelectSeq(df.rows, Active)
        active_trips == IF driver_id # None THEN SelectSeq(in_window, OfDriver)
                        ELSE in_window
    IN  IF Len(active_trips) = 0
        THEN Response("live_all", driver_id, None, now, 404,
                      "No active trips at current simulation time", t, <<>>)
        ELSE LET b == build_result(active_trips, t.simulation_timestamp, <<>>)
             IN  IF b.raised
                 THEN Response("live_all", driver_id, None, now, 500, b.exc, t, b.result)
                 ELSE Response("live_all", driver_id, None, now, 200, "", t, b.result)

\* faulty variant: the `if trips_df is None` test forgotten, so that the
\* masks subscript None
live_all_unguarded(df, now, driver_id) ==
    IF df.is_none
    THEN Response("live_all", driver_id, None, now, 500, "TypeError",
                  get_simulation_time(now), <<>>)
    ELSE live_all_loaded(df, now, driver_id)

live_all(df, now, driver_id) ==
    IF df.is_none
    THEN Response("live_all", driver_id, None, now, 503, "Data not loaded", NoTime, <<>>)
    ELSE live_all_loaded(df, now, driver_id)

\* return await live_all(driver_id=driver_id)
live_driver(df, now, driver_id) == live_all(df, now, driver_id)

live_driver_latest(df, now, driver_id) ==
    IF df.is_none
    THEN Response("live_driver_latest", driver_id, None, now, 503, "Data not loaded",
                  NoTime, <<>>)
    ELSE
    LET t == get_simulation_time(now) IN
    IF t.raised
    THEN Response("live_driver_latest", driver_id, None, now, 500, "ValueError",
                  NoTime, <<>>)
    ELSE
    LET Match(trip) == trip.TAXI_ID = driver_id /\ is_active(trip, t.simulation_timestamp)
        active_trip == SelectSeq(df.rows, Match)
    IN  IF Len(active_trip) = 0
        THEN Response("live_driver_latest", driver_id, None, now, 404,
                      "Driver has no active trip", t, <<>>)
        ELSE LET b == trip_latest(active_trip[1], t.simulation_timestamp)
             IN  IF b.raised
                 THEN Response("live_driver_latest", driver_id, None, now, 500, b.exc,
                               t, <<>>)
                 ELSE Response("live_driver_latest", driver_id, None, now, 200, "",
                               t, b.row)

live_driver_trip(df, now, driver_id, trip_id) ==
    IF df.is_none
    THEN Response("live_driver_trip", driver_id, trip_id, now, 503, "Data not loaded",
                  NoTime, <<>>)
    ELSE
    LET t == get_simulation_time(now) IN
    IF t.raised
    THEN Response("live_driver_trip", driver_id, trip_id, now, 500, "ValueError",
                  NoTime, <<>>)
    ELSE
    LET Match(trip) == trip.TAXI_ID = driver_id /\ trip.TRIP_ID = trip_id
        trip_match == SelectSeq(df.rows, Match)
    IN  IF Len(trip_match) = 0
        THEN Response("live_driver_trip", driver_id, trip_id, now, 404,
                      "Trip not found for driver", t, <<>>)
        ELSE IF ~is_active(trip_match[1], t.simulation_timestamp)
        THEN Response("live_driver_trip", driver_id, trip_id, now, 404,
                      "Trip is not active at current simulation time", t, <<>>)
        ELSE LET b == trip_with_history(trip_match[1], t.simulation_timestamp)
             IN  IF b.raised
                 THEN Response("live_driver_trip", driver_id, trip_id, now, 500, b.exc,
                               t, <<>>)
                 ELSE Response("live_driver_trip", driver_id, trip_id, now, 200, "",
                               t, b.row)

(***************************************************************************)
(* Spec: the server.  lifespan loads the store once; the clock advances;   *)
(* the four live endpoints answer at any time, before the load too (the    *)
(* handlers are plain functions of the module's globals).                  *)
(***************************************************************************)
StartInstants ==
    { DateTime(2024, 6, 15, 1, 59, 59, 0),
      DateTime(2025, 1, 1, 0, 59, 59, 0) }

NoResponse == Response("none", None, None, DateTime(1, 1, 1, 0, 0, 0, 0), 0, "", NoTime, <<>>)

Init ==
    /\ trips_df = NoneDF
    /\ clock \in StartInstants
    /\ resp = NoResponse
    /\ ticks = 0

\* trips_df, drivers_df = load_data() on startup; a load that raises ends
\* the process with trips_df still None
Lifespan ==
    /\ trips_df.is_none
    /\ \E rows \in Stores : trips_df' = DataFrame(rows)
    /\ UNCHANGED <<clock, resp, ticks>>

\* real time passes within the calendar second
TickMicro ==
    /\ clock.microsecond < LastMicrosecond
    /\ clock' = [clock EXCEPT !.microsecond = LastMicrosecond]
    /\ UNCHANGED <<trips_df, resp, ticks>>

\* real time passes to the next calendar second
TickSecond ==
    /\ ticks < MaxTicks
    /\ clock' = NextSecond(clock)
    /\ ticks' = ticks + 1
    /\ UNCHANGED <<trips_df, resp>>

LiveAll ==
    /\ \E d \in Drivers \cup {None} : resp' = live_all(trips_df, clock, d)
    /\ UNCHANGED <<trips_df, clock, ticks>>

LiveDriver ==
    /\ \E d \in Drivers : resp' = live_driver(trips_df, clock, d)
    /\ UNCHANGED <<trips_df, clock, ticks>>

LiveDriverLatest ==
    /\ \E d \in Drivers : resp' = live_driver_latest(trips_df, clock, d)
    /\ UNCHANGED <<trips_df, clock, ticks>>

LiveDriverTrip ==
    /\ \E d \in Drivers, id \in TripIds : resp' = live_driver_trip(trips_df, clock, d, id)
    /\ UNCHANGED <<trips_df, clock, ticks>>

Next ==
    \/ Lifespan
    \/ TickMicro
    \/ TickSecond
    \/ LiveAll
    \/ LiveDriver
    \/ LiveDriverLatest
    \/ LiveDriverTrip

Spec == Init /\ [][Next]_vars

(***************************************************************************)
(* Claims about the live queries, checked under Spec.  The store never     *)
(* changes once loaded (C8), so a response that is not 503 was computed    *)
(* from the rows trips_df holds now.                                       *)
(***************************************************************************)
LiveOps == {"live_all", "live_driver_latest", "live_driver_trip"}

\* the handler found the store loaded
Answered(r) == r.op \in LiveOps /\ r.status # 503

\* ... and get_simulation_time gave it the simulated instant r.simulation_time
Timed(r) == Answered(r) /\ ~(r.status = 500 /\ r.error = "ValueError")

StoreRows == { trips_df.rows[i] : i \in DOMAIN trips_df.rows }

\* the definition of "active": start <= t < start + duration
InInterval(trip, t) ==
    trip.TIMESTAMP <= t /\ t < trip.TIMESTAMP + trip.duration_sec

\* the rows the all-active query is to report, in store order
Expected(r) ==
    LET Wanted(trip) == /\ InInterval(trip, r.simulation_time)
                        /\ (r.driver_id = None \/ trip.TAXI_ID = r.driver_id)
    IN  SelectSeq(trips_df.rows, Wanted)

\* C4: for every trip store and simulated instant t, live_all returns exactly
\* the trips with start <= t < start + duration (of the driver, when that
\* filter is given), each once and in store order: the empty set is the
\* "no active trips" answer.
C4_AllActiveExactly ==
    (resp.op = "live_all" /\ Timed(resp)) =>
        LET expected == Expected(resp) IN
        IF Len(expected) = 0
        THEN resp.status = 404 /\ resp.trips = <<>>
        ELSE /\ resp.status = 200
             /\ Len(resp.trips) = Len(expected)
             /\ \A i \in DOMAIN expected :
                    /\ resp.trips[i].trip_id = expected[i].TRIP_ID
                    /\ resp.trips[i].driver_id = expected[i].TAXI_ID

\* C5: for every trip a live query reports, with a recorded path of n
\* samples and elapsed = t - start >= 0, points_to_show is
\* min(floor(elapsed / 15) + 1, n), gps_history is the first points_to_show
\* samples and current_position is sample points_to_show - 1 when n > 0.
RowOf(id) == CHOOSE trip \in StoreRows : trip.TRIP_ID = id

C5_PlaybackPrefix ==
    Answered(resp) =>
        \A i \in DOMAIN resp.trips :
            LET row     == resp.trips[i]
                trip    == RowOf(row.trip_id)
                path    == trip.POLYLINE.items
                n       == Len(path)
                elapsed == resp.simulation_time - trip.TIMESTAMP
                shown   == IF (elapsed \div 15) + 1 <= n THEN (elapsed \div 15) + 1 ELSE n
            IN  trip.POLYLINE.kind = "array" =>
                    /\ elapsed >= 0
                    /\ row.elapsed_seconds = elapsed
                    /\ shown <= n
                    /\ n > 0 => shown >= 1
                    /\ resp.op # "live_driver_latest" =>
                           row.gps_history = PyValue("list", SubSeq(path, 1, shown))
                    /\ IF n > 0
                       THEN row.current_position = Position(path[shown])
                       ELSE row.current_position = NoPosition

C5_Witness ==
    /\ resp.op = "live_all"
    /\ resp.status = 200
    /\ \E i \in DOMAIN resp.trips :
           /\ resp.trips[i].trip_id = 2
           /\ resp.trips[i].elapsed_seconds = 30
           /\ resp.trips[i].gps_history = PyValue("list", <<P1, P2>>)
           /\ resp.trips[i].current_position = Position(P2)

\* C6: for an active trip whose path field is empty or corrupt (missing, not
\* valid JSON, or JSON that is not a list), no live query raises: the trip
\* is reported as active with gps_history = [] and no current_position.
NoSamples(trip) == trip.POLYLINE.kind # "array" \/ trip.POLYLINE.items = <<>>

\* the trip is one the request r is to report at its simulated instant
Targets(r, trip) ==
    /\ InInterval(trip, r.simulation_time)
    /\ IF r.op = "live_all" THEN r.driver_id = None \/ trip.TAXI_ID = r.driver_id
       ELSE IF r.op = "live_driver_trip"
       THEN trip.TAXI_ID = r.driver_id /\ trip.TRIP_ID = r.trip_id
       ELSE LET Mine(x) == x.TAXI_ID = r.driver_id /\ InInterval(x, r.simulation_time)
            IN  trip.TAXI_ID = r.driver_id /\ trip = Head(SelectSeq(trips_df.rows, Mine))

C6_CorruptPathDegrades ==
    Timed(resp) =>
        \A trip \in StoreRows :
            (NoSamples(trip) /\ Targets(resp, trip)) =>
                /\ resp.status = 200
                /\ \E i \in DOMAIN resp.trips :
                       /\ resp.trips[i].trip_id = trip.TRIP_ID
                       /\ resp.trips[i].gps_history
                            = (IF resp.op = "live_driver_latest" THEN NoHistory
                               ELSE PyValue("list", <<>>))
                       /\ resp.trips[i].current_position = NoPosition

\* C7: with the store loaded, live_driver_trip(driver_id, trip_id) returns
\* exactly one of: not-found iff no record has that driver_id and trip_id;
\* not-active iff the record exists and the simulated instant is outside
\* [start, start + duration); active with the trip's detail iff it is inside.
C7_ThreeOutcomes ==
    (resp.op = "live_driver_trip" /\ Answered(resp)) =>
        LET Record(trip) == trip.TAXI_ID = resp.driver_id /\ trip.TRIP_ID = resp.trip_id
            found     == \E trip \in StoreRows : Record(trip)
            inside    == \E trip \in StoreRows :
                             Record(trip) /\ InInterval(trip, resp.simulation_time)
            NotFound  == resp.status = 404 /\ resp.error = "Trip not found for driver"
            NotActive == /\ resp.status = 404
                         /\ resp.error = "Trip is not active at current simulation time"
            Active    == /\ resp.status = 200
                         /\ Len(resp.trips) = 1
                         /\ resp.trips[1].trip_id = resp.trip_id
                         /\ resp.trips[1].driver_id = resp.driver_id
        IN  /\ NotFound <=> ~found
            /\ NotActive <=> (found /\ ~inside)
            /\ Active <=> inside

\* C8: while the store is not loaded every live query answers 503 "Data not
\* loaded" and nothing else; once the startup load has completed the store
\* stays as loaded and no query answers 503 again.
AnswersNow ==
    { live_all(trips_df, clock, d) : d \in Drivers \cup {None} }
    \cup { live_driver(trips_df, clock, d) : d \in Drivers }
    \cup { live_driver_latest(trips_df, clock, d) : d \in Drivers }
    \cup { live_driver_trip(trips_df, clock, d, id) : d \in Drivers, id \in TripIds }

NotLoadedAnswer(r) == r.status = 503 /\ r.error = "Data not loaded" /\ r.trips = <<>>

C8_NotLoadedThenLoaded ==
    /\ [](\A r \in AnswersNow : IF trips_df.is_none THEN NotLoadedAnswer(r)
                                ELSE r.status # 503)
    /\ [][ /\ ~trips_df.is_none => trips_df' = trips_df
           /\ resp' # resp => (IF trips_df.is_none THEN NotLoadedAnswer(resp')
                               ELSE resp'.status # 503) ]_vars

C8_Witness ==
    /\ trips_df.is_none
    /\ resp.op = "live_driver_trip"
    /\ resp.status = 503

\* C9: two all-active queries with the same filter whose clock readings fall
\* in the same calendar second, over an unchanged store, get the same
\* simulation_time and seconds_into_cycle and the same trips, each with the
\* same elapsed_seconds, progress_pct, gps_history and current_position.
SameSecond(a, b) == [a EXCEPT !.microsecond = 0] = [b EXCEPT !.microsecond = 0]

AllActiveAnswer(r) == r.op = "live_all" /\ r.status # 503

C9_SameSecondSameAnswer ==
    [][ ( /\ AllActiveAnswer(resp)
          /\ AllActiveAnswer(resp')
          /\ resp'.driver_id = resp.driver_id
          /\ SameSecond(resp.at, resp'.at)
          /\ trips_df' = trips_df ) =>
            /\ resp'.status = resp.status
            /\ resp'.error = resp.error
            /\ resp'.simulation_time = resp.simulation_time
            /\ resp'.seconds_into_cycle = resp.seconds_into_cycle
            /\ resp'.trips = resp.trips ]_vars

C9_Witness ==
    /\ resp.op = "live_all"
    /\ resp.status = 200
    /\ Len(resp.trips) = MaxTrips
    /\ resp.at.microsecond = LastMicrosecond
    /\ resp.at = clock

\* C10: a trip with duration_sec = 0 is never reported as active by a live
\* query, so progress_pct never divides by zero, and wherever it is
\* evaluated 0 <= elapsed < duration_sec.
C10_NoZeroDivisor ==
    Answered(resp) =>
        \A i \in DOMAIN resp.trips :
            /\ RowOf(resp.trips[i].trip_id).duration_sec # 0
            /\ resp.trips[i].total_duration > 0
            /\ 0 <= resp.trips[i].elapsed_seconds
            /\ resp.trips[i].elapsed_seconds < resp.trips[i].total_duration
            /\ resp.trips[i].progress_pct \in 0..10000

C10_Witness ==
    /\ resp.op \in LiveOps
    /\ resp.status = 200
    /\ \E trip \in StoreRows :
           /\ trip.duration_sec = 0
           /\ trip.TIMESTAMP = resp.simulation_time
           /\ resp.driver_id \in {None, trip.TAXI_ID}

\* C11: as real time advances within one 2-hour cycle, playback of a trip only
\* moves forward: of two answers that report the same trip, computed at
\* instants t1 <= t2 of the same cycle, the earlier gps_history is a prefix of
\* the later one and the earlier elapsed_seconds is not above the later one;
\* the simulated time steps back only when the clock has passed an odd-hour
\* boundary.
\* the 2-hour cycle an instant falls in: cycles start at the odd UTC hours
CycleOf(dt) == (ToOrdinal(dt) * 24 + dt.hour - 1) \div 2

\* a <= b on two aware UTC datetimes
NotAfter(a, b) == ~DtGreater(a, b)

IsPrefix(a, b) == Len(a) <= Len(b) /\ SubSeq(b, 1, Len(a)) = a

C11_PlaybackMonotone ==
    [][ ( /\ Timed(resp)
          /\ Timed(resp')
          /\ trips_df' = trips_df
          /\ NotAfter(resp.at, resp'.at) ) =>
            /\ CycleOf(resp.at) = CycleOf(resp'.at) =>
                 /\ resp.seconds_into_cycle <= resp'.seconds_into_cycle
                 /\ \A i \in DOMAIN resp.trips : \A j \in DOMAIN resp'.trips :
                        resp.trips[i].trip_id = resp'.trips[j].trip_id =>
                            /\ resp.trips[i].elapsed_seconds
                                 <= resp'.trips[j].elapsed_seconds
                            /\ (resp.op # "live_driver_latest"
                                  /\ resp'.op # "live_driver_latest") =>
                                   /\ resp.trips[i].gps_history.type
                                        = resp'.trips[j].gps_history.type
                                   /\ IsPrefix(resp.trips[i].gps_history.items,
                                               resp'.trips[j].gps_history.items)
            /\ resp'.seconds_into_cycle < resp.seconds_into_cycle =>
                 CycleOf(resp.at) < CycleOf(resp'.at) ]_vars

\* the answer of 01:59:59 showed one sample of trip 3; the clock has moved to
\* 02:00:00 of the same cycle, where the answer shows that sample and the next
C11_Witness ==
    /\ resp.op \in {"live_all", "live_driver_trip"}
    /\ resp.status = 200
    /\ \E i \in DOMAIN resp.trips :
           /\ resp.trips[i].trip_id = 3
           /\ resp.trips[i].elapsed_seconds = 14
           /\ resp.trips[i].gps_history = PyValue("list", <<P1>>)
    /\ DtGreater(clock, resp.at)
    /\ CycleOf(clock) = CycleOf(resp.at)
    /\ LET later == live_all(trips_df, clock, None)
       IN  /\ later.status = 200
           /\ \E j \in DOMAIN later.trips :
                  /\ later.trips[j].trip_id = 3
                  /\ later.trips[j].elapsed_seconds = 15
                  /\ later.trips[j].gps_history = PyValue("list", <<P1, P2>>)

====
